---------------------------- MODULE Spec2Model ----------------------------
(***************************************************************************)
(* Model of the PDF -> PNG -> markdown -> viewer tool chain:               *)
(*   main.py                    convert_pdf_to_png (the page exporter)     *)
(*   text_extract_from_image.py process_png_files (the extraction run)     *)
(*   ui.py                      parse_markdown_by_pages and the viewer     *)
(*                              script with its session page_index         *)
(*                                                                         *)
(* Text is a sequence of tokens.  A token is one character, except that    *)
(* the fixed literals the programs write are one token each:               *)
(*   "T"  the title text   # OCR Extracted Text                            *)
(*   "H"  the heading text ## Page  (what the parser's pattern starts with)*)
(*   "E"  the text         *Error processing this page:                    *)
(*   "*"  the closing star of the error annotation                         *)
(*   "-"  the delimiter    ---                                             *)
(*   "n"  a newline, "x" any other visible character, "0".."9" digits.     *)
(*                                                                         *)
(* The file system is taken to work: an open or a write of output.md that  *)
(* the code reaches does not fail, and png_output is not changed while an  *)
(* extraction run reads it.                                                *)
(***************************************************************************)
EXTENDS Integers, Sequences, FiniteSets, TLC

VARIABLES
    \* the file system
    pdf_exists, pdf_len, dir_exists, png_files, md_exists, output_md,
    \* convert_pdf_to_png
    xpc, x_page_num, x_saved,
    \* process_png_files
    ppc, page_num, processed_count, png_file, loaded, calls, inflight,
    written, truncs,
    \* the viewer script and its session
    vpc, has_index, page_index, pdf_total_pages, markdown_pages,
    markdown_total_pages, total_pages, rendered, pdf_shown, md_shown,
    prev_enabled, next_enabled,
    \* a direct call of parse_markdown_by_pages
    p_content, p_pages, p_done

fsvars == <<pdf_exists, pdf_len, dir_exists, png_files, md_exists, output_md>>
xvars == <<xpc, x_page_num, x_saved>>
pvars == <<ppc, page_num, processed_count, png_file, loaded, calls, inflight,
           written, truncs>>
vvars == <<vpc, has_index, page_index, pdf_total_pages, markdown_pages,
           markdown_total_pages, total_pages, rendered, pdf_shown, md_shown,
           prev_enabled, next_enabled>>
qvars == <<p_content, p_pages, p_done>>
vars == <<fsvars, xvars, pvars, vvars, qvars>>

----------------------------------------------------------------------------
(* Bounds of the model *)

\* most pages a source PDF has
MaxPdfPages == 3
\* highest page image number that may lie in png_output before a run
MaxFileNum == 4
\* longest text handed to a direct call of the parser
MaxLen == 5

----------------------------------------------------------------------------
(* Text *)

DigitChars == <<"0", "1", "2", "3", "4", "5", "6", "7", "8", "9">>

IsDigit(c) == \E d \in 1..10 : DigitChars[d] = c

DigitVal(c) == (CHOOSE d \in 1..10 : DigitChars[d] = c) - 1

\* str.strip() and the "\n" the programs write: the whitespace tokens
IsSpace(c) == c \in {"n", " "}

\* format(n, "d"): the decimal digits of n >= 0
RECURSIVE Dec(_)
Dec(n) ==
    IF n < 10 THEN <<DigitChars[n + 1]>>
    ELSE Dec(n \div 10) \o <<DigitChars[(n % 10) + 1]>>

RECURSIVE ZeroPad(_, _)
ZeroPad(ds, width) ==
    IF Len(ds) >= width THEN ds ELSE ZeroPad(<<"0">> \o ds, width)

\* f"{page_num:04d}"
Fmt04d(n) == ZeroPad(Dec(n), 4)

\* int(match.group(1))
RECURSIVE ParseInt(_)
ParseInt(ds) ==
    IF Len(ds) = 0 THEN 0
    ELSE 10 * ParseInt(SubSeq(ds, 1, Len(ds) - 1)) + DigitVal(ds[Len(ds)])

RECURSIVE LStrip(_)
LStrip(s) ==
    IF Len(s) > 0 /\ IsSpace(s[1]) THEN LStrip(Tail(s)) ELSE s

RECURSIVE RStrip(_)
RStrip(s) ==
    IF Len(s) > 0 /\ IsSpace(s[Len(s)])
    THEN RStrip(SubSeq(s, 1, Len(s) - 1)) ELSE s

\* str.strip()
Strip(s) == RStrip(LStrip(s))

\* whether text t occurs in text s
Contains(s, t) ==
    \E i \in 1..(Len(s) - Len(t) + 1) : SubSeq(s, i, i + Len(t) - 1) = t

----------------------------------------------------------------------------
(* ui.py: parse_markdown_by_pages *)

\* index of the last digit of the run of digits that starts at i
RECURSIVE DigitsEnd(_, _)
DigitsEnd(content, i) ==
    IF i + 1 <= Len(content) /\ IsDigit(content[i + 1])
    THEN DigitsEnd(content, i + 1) ELSE i

\* list(re.finditer(r'## Page (\d+)', content)) from position i on: the
\* matches in document order, each with its start, the index after its last
\* character and group(1)
RECURSIVE FindIter(_, _)
FindIter(content, i) ==
    IF i > Len(content) THEN <<>>
    ELSE IF content[i] = "H" /\ i + 1 <= Len(content) /\ IsDigit(content[i + 1])
    THEN LET e == DigitsEnd(content, i + 1)
         IN  <<[start |-> i, stop |-> e + 1,
                group1 |-> SubSeq(content, i + 1, e)]>>
             \o FindIter(content, e + 1)
    ELSE FindIter(content, i + 1)

Matches(content) == FindIter(content, 1)

\* content[start_pos:end_pos].strip() of match i
PageContent(content, matches, i) ==
    LET start_pos == matches[i].start
        end_pos == IF i + 1 <= Len(matches) THEN matches[i + 1].start
                   ELSE Len(content) + 1
    IN  Strip(SubSeq(content, start_pos, end_pos - 1))

\* the faulty form of the assignment: an entry already present is kept
KeepFirst(pages, key, value) ==
    IF key \in DOMAIN pages THEN pages
    ELSE [k \in DOMAIN pages \cup {key} |-> IF k = key THEN value ELSE pages[k]]

\* pages[page_num] = page_content
SetItem(pages, key, value) ==
    [k \in DOMAIN pages \cup {key} |-> IF k = key THEN value ELSE pages[k]]

\* the faulty form of the key: the heading's number itself
PageKeyOneBased(group1) == ParseInt(group1)

\* int(match.group(1)) - 1
PageKey(group1) == ParseInt(group1) - 1

\* the for loop over enumerate(matches), from match i on
RECURSIVE ExtractLoop(_, _, _, _)
ExtractLoop(content, matches, i, pages) ==
    IF i > Len(matches) THEN pages
    ELSE ExtractLoop(content, matches, i + 1,
             SetItem(pages, PageKey(matches[i].group1),
                     PageContent(content, matches, i)))

EmptyDict == [k \in {} |-> <<>>]

parse_markdown_by_pages(exists, content) ==
    IF ~exists THEN EmptyDict
    ELSE LET matches == Matches(content)
         IN  IF Len(matches) = 0 THEN [k \in {0} |-> content]
             ELSE ExtractLoop(content, matches, 1, EmptyDict)

----------------------------------------------------------------------------
(* Initial values of each program's variables *)

InitFs ==
    /\ pdf_exists = FALSE /\ pdf_len = 0
    /\ dir_exists = FALSE /\ png_files = {}
    /\ md_exists = FALSE /\ output_md = <<>>

InitExporter == xpc = "idle" /\ x_page_num = 0 /\ x_saved = <<>>

InitPipeline ==
    /\ ppc = "idle" /\ page_num = 0 /\ processed_count = 0 /\ png_file = <<>>
    /\ loaded = <<>> /\ calls = <<>> /\ inflight = 0 /\ written = <<>>
    /\ truncs = 0

InitViewer ==
    /\ vpc = "wait" /\ has_index = FALSE /\ page_index = 0
    /\ pdf_total_pages = 0 /\ markdown_pages = EmptyDict
    /\ markdown_total_pages = 0 /\ total_pages = 0 /\ rendered = FALSE
    /\ pdf_shown = FALSE /\ md_shown = FALSE
    /\ prev_enabled = FALSE /\ next_enabled = FALSE

InitParser == p_content = <<>> /\ p_pages = EmptyDict /\ p_done = FALSE

----------------------------------------------------------------------------
(* What the programs write *)

\* "# OCR Extracted Text\n\n"
TitleText == <<"T", "n", "n">>

\* f"*Error processing this page: {str(e)}*"
ErrorAnnotation(msg) == <<"E">> \o msg \o <<"*">>

\* the three writes of one section: heading, body, delimiter
SectionText(n, body) ==
    <<"H">> \o Fmt04d(n) \o <<"n", "n">> \o body \o <<"n", "n">>
    \o <<"-", "n", "n">>

\* open(output_file, "w") then write: the old content is dropped
WriteMode(old, text) == text

\* the faulty form of the appending open: mode "w"
AppendTruncating(old, text) == text

\* open(output_file, "a") then write
AppendMode(old, text) == old \o text

\* what the vision agent may return: plain text, or text that itself holds
\* a page heading
ExtractedTexts == {<<"x">>, <<"H", "9">>}

\* str(e) of what image loading or the agent may raise
ErrorMessages == {<<"x">>}

\* what output.md holds before a run, when it exists
StaleText == <<"x", "n">>

----------------------------------------------------------------------------
(* main.py: convert_pdf_to_png *)

\* the name of a page image: the digits of page_NNNN.png
PageFileName(n) == Fmt04d(n)

\* output_path / f"page_{page_num + 1:04d}.png"; the 0-based form comes
\* first as the faulty one
OutputFilenameZeroBased(n) == PageFileName(n)

OutputFilename(n) == PageFileName(n + 1)

\* an export starts before the extraction run, or after one that failed to
\* start: never while png_output is being read
XMkdir ==
    /\ xpc = "idle" /\ ppc \in {"idle", "raised"}
    /\ dir_exists' = TRUE
    /\ xpc' = "open"
    /\ UNCHANGED <<pdf_exists, pdf_len, png_files, md_exists, output_md,
                   x_page_num, x_saved, pvars, vvars, qvars>>

\* if not pdf_path.exists(): raise FileNotFoundError
XOpenTarget == IF ~pdf_exists THEN "raised" ELSE "loop"

XOpen ==
    /\ xpc = "open"
    /\ xpc' = XOpenTarget
    /\ x_page_num' = 0
    /\ UNCHANGED <<fsvars, x_saved, pvars, vvars, qvars>>

\* one iteration of the for loop: render, enhance, save
XSavePage ==
    /\ xpc = "loop"
    /\ x_page_num < pdf_len
    /\ png_files' = png_files \cup {OutputFilename(x_page_num)}
    /\ x_saved' = Append(x_saved, OutputFilename(x_page_num))
    /\ x_page_num' = x_page_num + 1
    /\ UNCHANGED <<pdf_exists, pdf_len, dir_exists, md_exists, output_md, xpc,
                   pvars, vvars, qvars>>

\* rendering or saving a page raises: the error leaves the function
XPageError ==
    /\ xpc = "loop"
    /\ x_page_num < pdf_len
    /\ xpc' = "raised"
    /\ UNCHANGED <<fsvars, x_page_num, x_saved, pvars, vvars, qvars>>

XDone ==
    /\ xpc = "loop"
    /\ x_page_num >= pdf_len
    /\ xpc' = "done"
    /\ UNCHANGED <<fsvars, x_page_num, x_saved, pvars, vvars, qvars>>

NextExporter == XMkdir \/ XOpen \/ XSavePage \/ XPageError \/ XDone

----------------------------------------------------------------------------
(* text_extract_from_image.py: process_png_files *)

\* the run reads png_output as the exporter left it: it starts when no
\* export is under way
ExporterAtRest == xpc \in {"idle", "done", "raised"}

\* the faulty form of the directory test: none
PStartUnchecked == "open"

\* if not png_dir.exists(): raise FileNotFoundError
PStartTarget == IF ~dir_exists THEN "raised" ELSE "open"

PStart ==
    /\ ppc = "idle" /\ ExporterAtRest
    /\ ppc' = PStartTarget
    /\ UNCHANGED <<fsvars, xvars, page_num, processed_count, png_file, loaded,
                   calls, inflight, written, truncs, vvars, qvars>>

\* with open(output_file, "w"): write the title; page_num = 1;
\* processed_count = 0
PTruncate ==
    /\ ppc = "open"
    /\ md_exists' = TRUE
    /\ output_md' = WriteMode(output_md, TitleText)
    /\ truncs' = truncs + 1
    /\ page_num' = 1
    /\ processed_count' = 0
    /\ ppc' = "loop"
    /\ UNCHANGED <<pdf_exists, pdf_len, dir_exists, png_files, xvars, png_file,
                   loaded, calls, inflight, written, vvars, qvars>>

\* the faulty form of the missing-file branch: skip the number while a
\* higher-numbered image exists
OnMissingSkip(n) ==
    IF \E m \in (n + 1)..(n + MaxFileNum) : PageFileName(m) \in png_files
    THEN [ppc |-> "loop", page_num |-> n + 1]
    ELSE [ppc |-> "done", page_num |-> n]

\* if not png_file.exists(): break
OnMissing(n) == [ppc |-> "done", page_num |-> n]

\* png_file = png_dir / f"page_{page_num:04d}.png" and the existence test
PCheck ==
    /\ ppc = "loop"
    /\ png_file' = PageFileName(page_num)
    /\ IF PageFileName(page_num) \in png_files
       THEN ppc' = "load" /\ UNCHANGED page_num
       ELSE /\ ppc' = OnMissing(page_num).ppc
            /\ page_num' = OnMissing(page_num).page_num
    /\ UNCHANGED <<fsvars, xvars, processed_count, loaded, calls, inflight,
                   written, truncs, vvars, qvars>>

\* page_num += 1 on the success path
NextPage(n) == n + 1

\* the faulty form of the except branch's counter: the page is tried again
RetryPage(n) == n

\* page_num += 1 in the except branch
ExceptNextPage(n) == n + 1

\* the faulty form of the except branch's writes: the failed page leaves no
\* section
NoErrorSection(n, msg) == <<>>

\* the three writes of the except branch
ErrorSection(n, msg) == SectionText(n, ErrorAnnotation(msg))

\* the faulty form of the except branch's end: the error is raised again
ExceptReraise == "raised"

\* continue: the loop goes on with the next page
ExceptTarget == "loop"

\* the except branch: the error section is appended, the counter advances,
\* the loop continues
ExceptBranch(msg) ==
    /\ output_md' = AppendMode(output_md, ErrorSection(page_num, msg))
    /\ written' = Append(written,
                      [page |-> page_num, ok |-> FALSE, text |-> msg])
    /\ page_num' = ExceptNextPage(page_num)
    /\ ppc' = ExceptTarget
    /\ UNCHANGED <<pdf_exists, pdf_len, dir_exists, png_files, md_exists,
                   processed_count, truncs>>

\* Image.open, img.load, read_bytes, BinaryContent: the image is loaded
PLoad ==
    /\ ppc = "load"
    /\ loaded' = Append(loaded, page_num)
    /\ ppc' = "submit"
    /\ UNCHANGED <<fsvars, xvars, page_num, processed_count, png_file, calls,
                   inflight, written, truncs, vvars, qvars>>

\* loading the image raises
PLoadError ==
    /\ ppc = "load"
    /\ loaded' = Append(loaded, page_num)
    /\ \E msg \in ErrorMessages : ExceptBranch(msg)
    /\ UNCHANGED <<xvars, png_file, calls, inflight, vvars, qvars>>

\* vision_agent.run(...) is called and awaited
PSubmit ==
    /\ ppc = "submit"
    /\ calls' = Append(calls, page_num)
    /\ inflight' = inflight + 1
    /\ ppc' = "await"
    /\ UNCHANGED <<fsvars, xvars, page_num, processed_count, png_file, loaded,
                   written, truncs, vvars, qvars>>

\* the call returns a result: the section is appended, both counters advance
PReturn ==
    /\ ppc = "await"
    /\ inflight' = inflight - 1
    /\ \E extracted_text \in ExtractedTexts :
          /\ output_md' = AppendMode(output_md,
                              SectionText(page_num, extracted_text))
          /\ written' = Append(written, [page |-> page_num, ok |-> TRUE,
                                         text |-> extracted_text])
    /\ processed_count' = processed_count + 1
    /\ page_num' = NextPage(page_num)
    /\ ppc' = "loop"
    /\ UNCHANGED <<pdf_exists, pdf_len, dir_exists, png_files, md_exists,
                   xvars, png_file, loaded, calls, truncs, vvars, qvars>>

\* the call raises
PReturnError ==
    /\ ppc = "await"
    /\ inflight' = inflight - 1
    /\ \E msg \in ErrorMessages : ExceptBranch(msg)
    /\ UNCHANGED <<xvars, png_file, loaded, calls, vvars, qvars>>

NextPipeline ==
    PStart \/ PTruncate \/ PCheck \/ PLoad \/ PLoadError \/ PSubmit
    \/ PReturn \/ PReturnError

----------------------------------------------------------------------------
(* The batch programs: an export, then an extraction run, each at most once *)

FileNames(S) == {PageFileName(n) : n \in S}

Init ==
    /\ pdf_exists \in BOOLEAN
    /\ pdf_len \in (IF pdf_exists THEN 0..MaxPdfPages ELSE {0})
    /\ dir_exists \in BOOLEAN
    /\ png_files \in (IF dir_exists
                      THEN {FileNames(S) : S \in SUBSET (1..MaxFileNum)}
                      ELSE {{}})
    /\ md_exists \in BOOLEAN
    /\ output_md = (IF md_exists THEN StaleText ELSE <<>>)
    /\ InitExporter /\ InitPipeline /\ InitViewer /\ InitParser

Next == NextExporter \/ NextPipeline

Spec == Init /\ [][Next]_vars

\* the extraction run, once started, takes its next step; a call to the
\* agent returns
FairSpec == Spec /\ WF_vars(NextPipeline)

----------------------------------------------------------------------------
(* ui.py: the viewer script.  Streamlit runs the script from the top on     *)
(* every event; st.session_state.page_index outlives the runs.             *)

Max(S) == CHOOSE m \in S : \A k \in S : k <= m

Min2(a, b) == IF a <= b THEN a ELSE b

\* max(markdown_pages.keys()) + 1 if markdown_pages else 0
MarkdownTotal(pages) ==
    IF DOMAIN pages = {} THEN 0 ELSE Max(DOMAIN pages) + 1

\* if page_index >= total_pages: page_index = total_pages - 1
\* if page_index < 0: page_index = 0
ClampIndex(index, total) ==
    LET upper == IF index >= total THEN total - 1 ELSE index
    IN  IF upper < 0 THEN 0 ELSE upper

\* render_pdf_page: doc[page_num] raises for a page the document lacks; a
\* negative number counts from the end
RenderPdfOk(index, n) == n > 0 /\ index < n

\* one run of the script.  click is the button pressed in the browser, if
\* any; honoured is whether st.button returns True for it when this run
\* shows the button disabled.
ScriptRun(click, honoured) ==
    LET index0 == IF has_index THEN page_index ELSE 0
        pages == parse_markdown_by_pages(md_exists, output_md)
        mtotal == MarkdownTotal(pages)
        total == Min2(pdf_len, mtotal)
        index == ClampIndex(index0, total)
        prev_disabled == (index = 0)
        next_disabled == (index >= total - 1)
        prev_pressed == click = "prev" /\ (~prev_disabled \/ honoured)
        next_pressed == click = "next" /\ (~next_disabled \/ honoured)
    IN  /\ has_index' = TRUE
        /\ IF ~pdf_exists
           THEN \* st.error; st.stop()
                /\ page_index' = index0
                /\ pdf_total_pages' = 0 /\ markdown_pages' = EmptyDict
                /\ markdown_total_pages' = 0 /\ total_pages' = 0
                /\ rendered' = FALSE /\ pdf_shown' = FALSE /\ md_shown' = FALSE
                /\ prev_enabled' = FALSE /\ next_enabled' = FALSE
                /\ vpc' = "wait"
           ELSE /\ pdf_total_pages' = pdf_len
                /\ markdown_pages' = pages
                /\ markdown_total_pages' = mtotal
                /\ IF mtotal = 0
                   THEN \* st.error; st.stop()
                        /\ page_index' = index0
                        /\ total_pages' = 0
                        /\ rendered' = FALSE
                        /\ pdf_shown' = FALSE /\ md_shown' = FALSE
                        /\ prev_enabled' = FALSE /\ next_enabled' = FALSE
                        /\ vpc' = "wait"
                   ELSE /\ total_pages' = total
                        /\ IF prev_pressed
                           THEN \* page_index -= 1; st.rerun()
                                /\ page_index' = index - 1
                                /\ rendered' = FALSE
                                /\ pdf_shown' = FALSE /\ md_shown' = FALSE
                                /\ prev_enabled' = FALSE
                                /\ next_enabled' = FALSE
                                /\ vpc' = "rerun"
                           ELSE IF next_pressed
                           THEN \* page_index += 1; st.rerun()
                                /\ page_index' = index + 1
                                /\ rendered' = FALSE
                                /\ pdf_shown' = FALSE /\ md_shown' = FALSE
                                /\ prev_enabled' = FALSE
                                /\ next_enabled' = FALSE
                                /\ vpc' = "rerun"
                           ELSE \* the two columns are drawn
                                /\ page_index' = index
                                /\ rendered' = TRUE
                                /\ pdf_shown' = RenderPdfOk(index, pdf_len)
                                /\ md_shown' = (index \in DOMAIN pages)
                                /\ prev_enabled' = ~prev_disabled
                                /\ next_enabled' = ~next_disabled
                                /\ vpc' = "wait"
        /\ UNCHANGED <<fsvars, xvars, pvars, qvars>>

\* the page is loaded or refreshed
VLoad == vpc = "wait" /\ ScriptRun("none", FALSE)

\* st.rerun() takes effect: the script runs again
VRerun == vpc = "rerun" /\ ScriptRun("none", FALSE)

\* Previous is pressed where the last run left it enabled
VPrevious ==
    /\ vpc = "wait" /\ rendered /\ prev_enabled
    /\ \E honoured \in BOOLEAN : ScriptRun("prev", honoured)

\* Next is pressed where the last run left it enabled
VNext ==
    /\ vpc = "wait" /\ rendered /\ next_enabled
    /\ \E honoured \in BOOLEAN : ScriptRun("next", honoured)

\* a new browser session: session_state starts empty
VNewSession ==
    /\ vpc = "wait" /\ has_index
    /\ has_index' = FALSE
    /\ page_index' = 0
    /\ rendered' = FALSE /\ pdf_shown' = FALSE /\ md_shown' = FALSE
    /\ prev_enabled' = FALSE /\ next_enabled' = FALSE
    /\ UNCHANGED <<vpc, pdf_total_pages, markdown_pages, markdown_total_pages,
                   total_pages, fsvars, xvars, pvars, qvars>>

\* output.md as a run over k images leaves it
RECURSIVE PipelineOutput(_)
PipelineOutput(k) ==
    IF k = 0 THEN TitleText
    ELSE PipelineOutput(k - 1) \o SectionText(k, <<"x">>)

\* the texts output.md may hold when the viewer reads it: the outputs of
\* runs, a text with no heading, a lone heading numbered 0, a lone heading
\* numbered above 1
ViewerTexts ==
    {PipelineOutput(k) : k \in 0..MaxPdfPages}
    \cup {<<"x">>, <<"H", "0">>, <<"H", "0", "0", "0", "3">>}

\* between and during the runs of the script the files change: an export or
\* an extraction run ends, a file is replaced or removed
VFilesChange ==
    /\ pdf_exists' \in BOOLEAN
    /\ pdf_len' \in (IF pdf_exists' THEN 0..MaxPdfPages ELSE {0})
    /\ md_exists' \in BOOLEAN
    /\ output_md' \in (IF md_exists' THEN ViewerTexts ELSE {<<>>})
    /\ UNCHANGED <<dir_exists, png_files, xvars, pvars, vvars, qvars>>

InitView ==
    /\ pdf_exists \in BOOLEAN
    /\ pdf_len \in (IF pdf_exists THEN 0..MaxPdfPages ELSE {0})
    /\ dir_exists = FALSE /\ png_files = {}
    /\ md_exists \in BOOLEAN
    /\ output_md \in (IF md_exists THEN ViewerTexts ELSE {<<>>})
    /\ InitExporter /\ InitPipeline /\ InitViewer /\ InitParser

NextView == VLoad \/ VRerun \/ VPrevious \/ VNext \/ VNewSession \/ VFilesChange

SpecView == InitView /\ [][NextView]_vars

----------------------------------------------------------------------------
(* A direct call of the parser on an arbitrary text *)

ParserAlphabet == {"H", "0", "1", "x", "n"}

RECURSIVE TextsUpTo(_)
TextsUpTo(n) ==
    IF n = 0 THEN {<<>>}
    ELSE LET shorter == TextsUpTo(n - 1)
         IN  shorter \cup {Append(s, c) : s \in shorter, c \in ParserAlphabet}

InitParse ==
    /\ InitFs /\ InitExporter /\ InitPipeline /\ InitViewer
    /\ p_content \in TextsUpTo(MaxLen)
    /\ p_pages = EmptyDict
    /\ p_done = FALSE

ParseCall ==
    /\ ~p_done
    /\ p_pages' = parse_markdown_by_pages(TRUE, p_content)
    /\ p_done' = TRUE
    /\ UNCHANGED <<p_content, fsvars, xvars, pvars, vvars>>

NextParse == ParseCall

SpecParse == InitParse /\ [][NextParse]_vars

----------------------------------------------------------------------------
(* C5 *)

\* the numbers of the matches that carry page number p
OccurrencesOf(content, p) ==
    {i \in 1..Len(Matches(content)) : ParseInt(Matches(content)[i].group1) = p}

PageNumbers(content) ==
    {ParseInt(Matches(content)[i].group1) : i \in 1..Len(Matches(content))}

\* C5: when the text has headings, the parsed map has exactly one entry per
\* distinct page number p, at key p-1, and that entry is the trimmed slice of
\* the last heading numbered p in document order (to the next heading or the
\* end of the text), whatever earlier headings of the same number held.
LastWriteWins ==
    (p_done /\ Len(Matches(p_content)) > 0) =>
        /\ DOMAIN p_pages = {p - 1 : p \in PageNumbers(p_content)}
        /\ \A p \in PageNumbers(p_content) :
              p_pages[p - 1] =
                  PageContent(p_content, Matches(p_content),
                              Max(OccurrencesOf(p_content, p)))

\* a text with the same page number twice, whose two slices differ, parsed
DuplicateParsed ==
    /\ p_done
    /\ \E p \in PageNumbers(p_content) :
          LET occ == OccurrencesOf(p_content, p)
          IN  /\ Cardinality(occ) >= 2
              /\ \E i \in occ : PageContent(p_content, Matches(p_content), i)
                                  # p_pages[p - 1]

----------------------------------------------------------------------------
(* Properties of the batch programs *)

\* the page numbers of the image files in png_output, read off their names
FileNumbers == {ParseInt(f) : f \in png_files}

\* the first page number with no image file
FirstGap ==
    CHOOSE n \in 1..(Cardinality(png_files) + 1) :
        /\ n \notin FileNumbers
        /\ \A m \in 1..(n - 1) : m \in FileNumbers

\* a complete section as output.md is documented to hold it
PageSection(n, body) ==
    <<"H">> \o Fmt04d(n) \o <<"n", "n">> \o body \o <<"n", "n", "-", "n", "n">>

\* the body of the section the run recorded as its i-th write
BodyOf(entry) ==
    IF entry.ok THEN entry.text ELSE <<"E">> \o entry.text \o <<"*">>

\* the sections of pages 1..k, with the bodies of the first k recorded writes
RECURSIVE SectionsUpTo(_, _)
SectionsUpTo(log, k) ==
    IF k = 0 THEN <<>>
    ELSE SectionsUpTo(log, k - 1) \o PageSection(k, BodyOf(log[k]))

NoDuplicates(seq) ==
    \A i, j \in 1..Len(seq) : seq[i] = seq[j] => i = j

ErrorCount == Cardinality({i \in 1..Len(written) : ~written[i].ok})

\* C1: when png_output holds exactly the images 1..K, a completed run leaves
\* output.md as the title followed by exactly K sections, headed page 1..K in
\* that order, one per attempted page, whether each page succeeded or failed.
OneSectionPerPage ==
    (ppc = "done" /\ FileNumbers = 1..Cardinality(png_files)) =>
        LET K == Cardinality(png_files)
        IN  /\ Len(written) = K
            /\ \A i \in 1..K : written[i].page = i
            /\ md_exists
            /\ output_md = <<"T", "n", "n">> \o SectionsUpTo(written, K)

\* a completed run over at least two gapless pages, one failed, one succeeded
MixedRunDone ==
    /\ ppc = "done"
    /\ FileNumbers = 1..Cardinality(png_files)
    /\ Cardinality(png_files) >= 2
    /\ \E i, j \in 1..Len(written) : written[i].ok /\ ~written[j].ok

\* C2: the run stops at the first page number n whose image is absent: no
\* image numbered n or above is ever loaded, submitted or given a section,
\* and a completed run has written the sections of pages 1..n-1 only.
GapTruncation ==
    (ppc # "idle") =>
        LET n == FirstGap
        IN  /\ \A i \in 1..Len(loaded) : loaded[i] < n
            /\ \A i \in 1..Len(calls) : calls[i] < n
            /\ \A i \in 1..Len(written) : written[i].page < n
            /\ (ppc \in {"load", "submit", "await"} => ParseInt(png_file) < n)
            /\ (ppc = "done" =>
                  /\ page_num = n
                  /\ Len(written) = n - 1
                  /\ \A i \in 1..(n - 1) : written[i].page = i)

\* a completed run that left an existing image above the gap untouched
StoppedBelowExistingImage ==
    /\ ppc = "done"
    /\ FirstGap >= 2
    /\ \E k \in FileNumbers : k > FirstGap

\* C3: an error raised for page n while loading its image or extracting its
\* text does not leave process_png_files: page n gets a section whose body is
\* the error annotation with the message, the counter moves to n+1, the run
\* goes on, and it ends with as many sections as if every page had succeeded.
PageErrorsAreRecorded ==
    /\ (ppc = "raised" => truncs = 0 /\ written = <<>>)
    /\ (ppc \in {"loop", "load", "submit", "await", "done"} =>
          page_num = Len(written) + 1)
    /\ \A i \in 1..Len(written) :
          ~written[i].ok =>
              Contains(output_md,
                  <<"H">> \o Fmt04d(written[i].page) \o <<"n", "n", "E">>
                  \o written[i].text \o <<"*", "n", "n", "-", "n", "n">>)
    /\ (ppc = "done" => Len(written) = FirstGap - 1)

\* a completed run in which a page failed and the page after it was processed
FailedPageThenNext ==
    /\ ppc = "done"
    /\ \E i \in 1..(Len(written) - 1) : ~written[i].ok /\ written[i + 1].ok

\* whether the slice starts with the heading of page n: the heading text and
\* a four-digit number equal to n
StartsWithHeading(slice, n) ==
    /\ Len(slice) >= 5
    /\ slice[1] = "H"
    /\ \A k \in 2..5 : IsDigit(slice[k])
    /\ ParseInt(SubSeq(slice, 2, 5)) = n
    /\ (Len(slice) >= 6 => ~IsDigit(slice[6]))

\* C4 as stated: parsing the output.md of a completed run with K >= 1
\* sections gives a map with keys exactly 0..K-1 whose value at i starts with
\* the heading of page i+1.
RoundTripAnyOutput ==
    (ppc = "done" /\ Len(written) >= 1) =>
        LET pages == parse_markdown_by_pages(md_exists, output_md)
            K == Len(written)
        IN  /\ DOMAIN pages = 0..(K - 1)
            /\ \A i \in 0..(K - 1) : StartsWithHeading(pages[i], i + 1)

\* no extracted text and no error message of the run holds a page heading
BodiesHoldNoHeading ==
    \A i \in 1..Len(written) : Matches(written[i].text) = <<>>

\* C4, amended: parsing the output.md of a completed run with K >= 1
\* sections, none of whose bodies itself holds a page heading, gives a map
\* with keys exactly 0..K-1 whose value at i starts with the heading of page
\* i+1.
RoundTripWellFormed ==
    (ppc = "done" /\ Len(written) >= 1 /\ BodiesHoldNoHeading) =>
        LET pages == parse_markdown_by_pages(md_exists, output_md)
            K == Len(written)
        IN  /\ DOMAIN pages = 0..(K - 1)
            /\ \A i \in 0..(K - 1) : StartsWithHeading(pages[i], i + 1)

\* a completed run of at least two sections, one an error section, with no
\* heading in any body
WellFormedOutputParsed ==
    /\ ppc = "done"
    /\ Len(written) >= 2
    /\ BodiesHoldNoHeading
    /\ \E i \in 1..Len(written) : ~written[i].ok

\* C6: with the source PDF absent, convert_pdf_to_png raises before any page
\* image is written; with png_output absent, process_png_files raises before
\* output.md is created or truncated and before any image is loaded or
\* submitted.
MissingInputFailsFast ==
    /\ (~pdf_exists /\ xpc \notin {"idle", "open"}) =>
          /\ xpc = "raised"
          /\ x_saved = <<>>
    /\ (~dir_exists /\ ppc # "idle") =>
          /\ ppc = "raised"
          /\ truncs = 0 /\ loaded = <<>> /\ calls = <<>> /\ written = <<>>
          /\ output_md = (IF md_exists THEN StaleText ELSE <<>>)

\* the extraction run raised for the missing directory, leaving an existing
\* output.md as it was, and the export then raised for the missing PDF
BothRaisedNotFound ==
    /\ ppc = "raised" /\ md_exists
    /\ xpc = "raised" /\ ~pdf_exists

\* C7: an export of an N-page PDF that completes has written exactly N image
\* files, the i-th being page_<i as four digits>.png for i = 1..N: one per
\* page, none skipped, none written twice.
OneImagePerPage ==
    (xpc = "done") =>
        /\ Len(x_saved) = pdf_len
        /\ \A i \in 1..Len(x_saved) :
              /\ Len(x_saved[i]) = 4
              /\ \A k \in 1..4 : IsDigit(x_saved[i][k])
              /\ ParseInt(x_saved[i]) = i
              /\ x_saved[i] \in png_files

\* a completed export of a PDF with at least two pages
ExportDone == xpc = "done" /\ pdf_len >= 2

\* the bodies a section may hold
SectionBodies ==
    ExtractedTexts \cup {<<"E">> \o msg \o <<"*">> : msg \in ErrorMessages}

\* C9: output.md is truncated and given the title exactly once, at the start
\* of the run; every later change of the file is the append of one complete
\* section of the current page, done before the next page is looked at; so
\* whenever the run is between pages the file is the title followed by the
\* complete sections of pages 1..m.
WriteDiscipline ==
    /\ [][(output_md' # output_md \/ md_exists' # md_exists) =>
             \/ /\ ppc = "open" /\ truncs = 0 /\ truncs' = 1
                /\ md_exists' /\ output_md' = <<"T", "n", "n">>
             \/ /\ ppc \in {"load", "await"} /\ ppc' = "loop"
                /\ UNCHANGED <<md_exists, truncs>>
                /\ \E body \in SectionBodies :
                      output_md' = output_md \o PageSection(page_num, body)]_vars
    /\ [][truncs' # truncs => ppc = "open" /\ truncs = 0]_vars
    /\ []((ppc \in {"loop", "done"}) =>
             /\ truncs = 1
             /\ output_md = <<"T", "n", "n">>
                              \o SectionsUpTo(written, page_num - 1))

\* the run is between pages with two sections appended to a file that held
\* other text before the run
TwoSectionsAppended ==
    /\ ppc = "loop"
    /\ Len(written) = 2
    /\ Len(output_md) > Len(PageSection(1, BodyOf(written[1])))

\* C10: with the image files unchanged during the run and every call to the
\* agent returning, a started run ends; the page counter only ever grows by
\* one, on the success path and on the failure path alike, so no page is
\* loaded or submitted twice, at most one call is in flight, and at the end
\* processed_count plus the number of error sections is the counter minus 1.
RunTerminates ==
    /\ (ppc # "idle") ~> (ppc \in {"done", "raised"})
    /\ [][page_num' # page_num =>
             \/ ppc = "open" /\ page_num' = 1
             \/ page_num' = page_num + 1]_vars
    /\ [][Len(written') # Len(written) =>
             Len(written') = Len(written) + 1 /\ page_num' = page_num + 1]_vars
    /\ [](/\ inflight \in {0, 1}
          /\ (inflight = 1 <=> ppc = "await")
          /\ NoDuplicates(loaded)
          /\ NoDuplicates(calls))
    /\ []((ppc = "done") =>
             processed_count + ErrorCount = page_num - 1)

\* a run that ended after a failed load, a failed call and a successful call
RunEndedAfterFailures ==
    /\ ppc = "done"
    /\ Len(calls) >= 2
    /\ Len(loaded) > Len(calls)
    /\ ErrorCount >= 2
    /\ processed_count >= 1

----------------------------------------------------------------------------
(* Properties of the viewer *)

\* the page count the viewer derives from the page map it holds
DerivedPageCount == MarkdownTotal(markdown_pages)

\* C8: whenever the viewer has drawn its two columns, whatever presses of
\* Previous and Next, reruns and changes of the PDF and of output.md came
\* before, the session page_index is at least 0 and at most
\* min(pdf page count, page count derived from the page map) - 1.
NavigationClamped ==
    (vpc = "wait" /\ rendered) =>
        /\ 0 <= page_index
        /\ page_index <= Min2(pdf_total_pages, DerivedPageCount) - 1

\* C8 where the PDF page itself could be drawn: the same bounds, which hold
\* there
NavigationClampedOnPdfPage ==
    (vpc = "wait" /\ rendered /\ pdf_shown) =>
        /\ 0 <= page_index
        /\ page_index <= Min2(pdf_total_pages, DerivedPageCount) - 1

\* the viewer draws the last page after both counts shrank under an index
\* that Next had raised
ClampedAfterShrink ==
    /\ vpc = "wait" /\ rendered /\ pdf_shown
    /\ page_index >= 1
    /\ page_index = Min2(pdf_total_pages, DerivedPageCount) - 1
    /\ pdf_total_pages # DerivedPageCount
    /\ ~next_enabled

=============================================================================
